---- MODULE Spec2Model ----
(***************************************************************************)
(* DOMule: DOM-driven module loader (hnl.dynamicimports, hnl.domscanner)  *)
(* and the listener registry of the event handler (hnl.eventhandler v2.5) *)
(* it uses for its lazy watches.                                           *)
(*                                                                         *)
(* Strings are sequences of one-character strings, so that split and trim  *)
(* are computed.  JavaScript objects used as maps keep their insertion     *)
(* order and are sequences of [key, elements] entries.  A DOM element is   *)
(* its index in document order.                                            *)
(***************************************************************************)
EXTENDS Integers, Sequences, FiniteSets, TLC

\* ---------------------------------------------------------------- bounds
NumElements == 2
MaxFrames == 2

\* ------------------------------------------------------------- strings
A == <<"a">>
B == <<"b">>
Idents == {A, B}
\* values of the data-requires attribute: "a", "b", "a,b"
AttrValues == {A, B, <<"a", ",", "b">>}
\* values of dataset.requireLazy: attribute absent, or "true"
LazyValues == {"undefined", "true"}

\* JavaScript truthiness of a dataset value
Truthy(v) == v \notin {"undefined", ""}

RECURSIVE SplitFrom(_, _, _)
SplitFrom(s, i, cur) ==
  IF i > Len(s) THEN <<cur>>
  ELSE IF s[i] = "," THEN <<cur>> \o SplitFrom(s, i + 1, <<>>)
  ELSE SplitFrom(s, i + 1, Append(cur, s[i]))

\* String.prototype.split(',')
Split(s) == SplitFrom(s, 1, <<>>)

RECURSIVE TrimLeft(_)
TrimLeft(s) == IF s # <<>> /\ Head(s) = " " THEN TrimLeft(Tail(s)) ELSE s

RECURSIVE TrimRight(_)
TrimRight(s) ==
  IF s # <<>> /\ s[Len(s)] = " " THEN TrimRight(SubSeq(s, 1, Len(s) - 1)) ELSE s

\* String.prototype.trim()
Trim(s) == TrimRight(TrimLeft(s))

\* ------------------------------------------- objects as ordered maps
HasKey(map, k) == \E i \in 1..Len(map) : map[i].key = k

Get(map, k) == map[CHOOSE i \in 1..Len(map) : map[i].key = k].elements

Push_prepend(map, k, el) ==
  IF HasKey(map, k)
  THEN [i \in 1..Len(map) |->
          IF map[i].key = k THEN [map[i] EXCEPT !.elements = Append(@, el)]
          ELSE map[i]]
  ELSE <<[key |-> k, elements |-> <<el>>]>> \o map

\* (map[k] = map[k] ? map[k] : []).push(el)
Push(map, k, el) ==
  IF HasKey(map, k)
  THEN [i \in 1..Len(map) |->
          IF map[i].key = k THEN [map[i] EXCEPT !.elements = Append(@, el)]
          ELSE map[i]]
  ELSE Append(map, [key |-> k, elements |-> <<el>>])

\* delete map[k]
Delete(map, k) == SelectSeq(map, LAMBDA r : r.key # k)

\* ---------------------------------------------------------- domScanner
\* the inner forEach over the tokens of one element's attribute
RECURSIVE ScanTokens(_, _, _, _, _)
ScanTokens(maps, d, el, toks, i) ==
  IF i > Len(toks) THEN maps
  ELSE LET module == toks[i]
           next == IF Trim(module) # <<>>
                   THEN IF Truthy(d[el].requireLazy)
                        THEN [maps EXCEPT !.deferred = Push(@, module, el)]
                        ELSE [maps EXCEPT !.modules = Push(@, module, el)]
                   ELSE maps
       IN ScanTokens(next, d, el, toks, i + 1)

\* the outer forEach over the elements carrying the attribute
RECURSIVE ScanElements(_, _, _)
ScanElements(maps, d, el) ==
  IF el > Len(d) THEN maps
  ELSE ScanElements(ScanTokens(maps, d, el, Split(d[el].requires), 1), d, el + 1)

\* domScanner('requires', cb): the arguments handed to cb, given the
\* module-level maps _modules and _deferred it accumulates into
domScanner_countingLazy(d, mods, defd) ==
  LET maps == ScanElements([modules |-> mods, deferred |-> defd], d, 1)
  IN [modules |-> maps.modules, deferred |-> maps.deferred,
      totals |-> Len(maps.modules) + Len(maps.deferred)]

domScanner(d, mods, defd) ==
  LET maps == ScanElements([modules |-> mods, deferred |-> defd], d, 1)
  IN [modules |-> maps.modules, deferred |-> maps.deferred,
      totals |-> Len(maps.modules)]

\* -------------------------------------------- eventHandler (v2.5) registry
Channels == {"docReady", "breakPointChange", "docShift", "startResize",
             "resize", "endResize", "bodyResize", "docBlur", "docFocus",
             "scroll", "startScroll", "endScroll", "docLoaded", "imgsLoaded"}

_allowMultiple_none == {}

_allowMultiple == {"breakPointChange"}

_singleExecution == {"docReady", "imgsLoaded", "docLoaded"}

\* the channel batches of the constructor's handlers that dispatch docShift
ShiftBatches == {<<"docReady", "docShift">>, <<"endResize", "docShift">>,
                 <<"docShift", "bodyResize">>, <<"scroll", "docShift">>,
                 <<"docFocus", "docShift">>}

\* 32-bit two's complement arithmetic on 16-bit halves
Pow16 == 65536
Lo16(x) == x % Pow16
Hi16(x) == (x \div Pow16) % Pow16
FromHalves(hi, lo) ==
  IF hi >= 32768 THEN (hi - Pow16) * Pow16 + lo ELSE hi * Pow16 + lo

\* ToInt32(a + b)
AddInt32(a, b) ==
  LET lo == Lo16(a) + Lo16(b)
      hi == Hi16(a) + Hi16(b) + (lo \div Pow16)
  IN FromHalves(hi % Pow16, lo % Pow16)

\* ToInt32(a - b)
SubInt32(a, b) == AddInt32(AddInt32(a, (0 - b) - 1), 1)

\* a << 5
Shl5(a) ==
  LET lo == Lo16(a) * 32
      hi == Hi16(a) * 32 + (lo \div Pow16)
  IN FromHalves(hi % Pow16, lo % Pow16)

RECURSIVE HashFrom(_, _, _)
HashFrom(string, i, hash) ==
  IF i > Len(string) THEN hash
  ELSE HashFrom(string, i + 1, AddInt32(SubInt32(Shl5(hash), hash), string[i]))

\* Math.abs(hash).toString(), as the two 16-bit halves of the magnitude
\* (|-2^31| = 2^31 is <<32768, 0>>)
_hashCode(string) ==
  LET hash == HashFrom(string, 1, 0)
  IN IF hash >= 0 THEN <<Hi16(hash), Lo16(hash)>>
     ELSE IF Lo16(hash) = 0 /\ Hi16(hash) = 32768 THEN <<32768, 0>>
     ELSE <<Hi16(0 - hash), Lo16(0 - hash)>>

\* callback.toString(): the source text of the function expression (its
\* leading characters, as character codes); closures of one function
\* expression share it whatever they captured
SourceTexts ==
  [watchModules_v1 |-> <<102, 117, 110, 99>>,
   watchModules_v2 |-> <<40, 41, 32, 61, 62>>,
   f |-> <<40, 41, 61, 62, 49>>,
   g |-> <<40, 41, 61, 62, 49>>,
   h |-> <<40, 41, 61, 62, 50>>]

SourceText(callback) == SourceTexts[callback.fn]

\* this._hashCode(text) of every source text
HashOfText == [t \in {SourceTexts[fn] : fn \in DOMAIN SourceTexts} |-> _hashCode(t)]

\* this._hashCode(callback.toString())
ListenerId(callback) == HashOfText[SourceText(callback)]

\* addListener: the registry afterwards. states is the set of one-shot
\* channels whose _states flag is set (then the callback is called at once
\* and not registered).
addListener_overwrite(cbs, states, event, callback) ==
  IF event \notin DOMAIN cbs THEN cbs
  ELSE IF event \in _singleExecution /\ event \in states THEN cbs
  ELSE LET id == ListenerId(callback)
       IN [cbs EXCEPT ![event] =
             (id :> callback) @@ [j \in (DOMAIN @) \ {id} |-> @[j]]]

addListener_alsoStores(cbs, states, event, callback) ==
  IF event \notin DOMAIN cbs THEN cbs
  ELSE LET id == ListenerId(callback)
       IN IF id \in DOMAIN cbs[event] THEN cbs
          ELSE [cbs EXCEPT ![event] = (id :> callback) @@ @]

addListener(cbs, states, event, callback) ==
  IF event \notin DOMAIN cbs THEN cbs
  ELSE IF event \in _singleExecution /\ event \in states THEN cbs
  ELSE LET id == ListenerId(callback)
       IN IF id \in DOMAIN cbs[event] THEN cbs
          ELSE [cbs EXCEPT ![event] = (id :> callback) @@ @]

\* removeListener: the registry afterwards
removeListener(cbs, event, callback) ==
  IF event \notin DOMAIN cbs THEN cbs
  ELSE LET id == ListenerId(callback)
       IN IF id \in DOMAIN cbs[event]
          THEN [cbs EXCEPT ![event] = [j \in (DOMAIN @) \ {id} |-> @[j]]]
          ELSE cbs

\* for-in order of integer-like property names: ascending numeric
IdLess(x, y) == x[1] < y[1] \/ (x[1] = y[1] /\ x[2] < y[2])
MinId(ids) == CHOOSE x \in ids : \A y \in ids : x = y \/ IdLess(x, y)

\* ------------------------------------------------------------ the loader
\* what import(path) of an identifier yields: a rejection, a module without
\* init, a module whose init returns, a module whose init throws
ModuleKinds == {"fetchFails", "noInit", "initOk", "initThrows"}

\* the two dynImports of hnl.dynamicimports.mjs
Impls == {"counter", "allSettled"}

VARIABLES
  impl,                \* which dynImports is in use
  dom,                 \* the elements carrying data-requires, document order
  moduleKind,          \* identifier -> ModuleKinds
  called,              \* dynImports has run
  _modules,            \* domScanner's module-level map of immediate modules
  _deferred,           \* domScanner's module-level map of lazy modules
  c,                   \* counter-based dynImports: let c = totals
  remaining,           \* Promise.allSettled: promises not yet settled
  _callbacks,          \* eventHandler._callbacks
  _lastRunTimeStamps,  \* eventHandler._lastRunTimeStamps
  timeStamp,           \* the timestamp of the latest animation frame
  fetches,             \* the import() calls made so far, in issue order
  jobs,                \* the microtask queue (promise reaction jobs)
  cbCount,             \* invocations of the completion callback
  reported,            \* key -> elements its watch was told are visible
  watchCalls,          \* key -> invocations of its watchModules
  shiftSeen            \* lazy keys with a visible element at a docShift dispatch

\* the event handler observed on its own
VARIABLES
  _states,             \* eventHandler._states: the one-shot flags that are set
  readyState,          \* document.readyState
  document_hidden,     \* visibilityChanged: let document_hidden
  rafQueue,            \* _runListeners requests waiting for the next frame
  frameCalls,          \* listener -> channels that invoked it in the latest frame
  frameRuns,           \* <<trigger, channel>> pairs served in the latest frame
  lastCall,            \* the latest addListener / removeListener call
  calls                \* number of addListener / removeListener calls

ehVars == <<_states, readyState, document_hidden, rafQueue, frameCalls,
            frameRuns, lastCall, calls>>

\* one debouncer made by debounceThis, observed on its own
VARIABLES
  options,             \* debounceThis: the options of the closure
  clock,               \* the time, in ticks
  lastRaw,             \* time of the latest raw event
  burstFirst,          \* time of the first raw event of the current burst
  burstCalls,          \* the callback's calls since that event: <<type, time>>
  lastCallAt,          \* time of the callback's latest call
  minGap               \* smallest time between two consecutive calls so far

dbVars == <<options, clock, lastRaw, burstFirst, burstCalls, lastCallAt, minGap>>

\* the debouncer's bookkeeping while it is not the one observed
DBIdle ==
  /\ options = <<>>
  /\ clock = 0
  /\ lastRaw = -1
  /\ burstFirst = -1
  /\ burstCalls = <<>>
  /\ lastCallAt = -1
  /\ minGap = -1

\* the breakpoint handler observed on its own
VARIABLES
  width,               \* the viewport width, in px
  matches              \* range -> MediaQueryList.matches of its media query

bpVars == <<width, matches>>

\* the breakpoint handler's bookkeeping while it is not observed
BPIdle ==
  /\ width = 0
  /\ matches = <<>>

\* the breakpoint handler feeding the event handler
VARIABLES
  setupDone,           \* setBreakpoints has run
  initialEvents,       \* the details of the events setBreakpoints dispatched
  lastReported         \* range -> matches the listener was last told

tkVars == <<setupDone, initialEvents, lastReported>>

\* the scanner observed on its own
VARIABLES
  totals,              \* domScanner: totals passed to the callback
  scans                \* number of domScanner calls

scVars == <<totals, scans>>

\* isVisible observed on its own
VARIABLES
  probe                \* the latest isVisible call: what it saw and reported

visVars == <<probe>>

\* callbacks registered once on docReady, observed over the page's lifetime
VARIABLES
  invocations,         \* listener -> number of times it was invoked
  registeredAt         \* listener -> the moment of its addListener call

rdVars == <<invocations, registeredAt>>

\* their bookkeeping while they are not observed
TKIdle ==
  /\ setupDone = FALSE
  /\ initialEvents = <<>>
  /\ lastReported = <<>>

SCIdle ==
  /\ totals = -1
  /\ scans = 0

\* an edge of the vp argument that is left out
Unset == -99

\* no call of isVisible yet
NoProbe ==
  [called |-> FALSE,
   rect |-> [top |-> 0, left |-> 0, bottom |-> 0, right |-> 0,
             height |-> 0, width |-> 0],
   vp |-> [top |-> Unset, bottom |-> Unset, left |-> Unset, right |-> Unset],
   viewport |-> [top |-> 0, bottom |-> 0, left |-> 0, right |-> 0],
   visible |-> FALSE, fullyVisible |-> FALSE]

VisIdle == probe = NoProbe

\* callbacks of distinct source text
ReadyCallbacks == {"f", "h"}

RDIdle ==
  /\ invocations = [fn \in ReadyCallbacks |-> 0]
  /\ registeredAt = [fn \in ReadyCallbacks |-> "none"]

\* what the loader's steps leave alone
outsideLoader == <<ehVars, dbVars, bpVars, tkVars, scVars, visVars, rdVars>>

vars == <<impl, dom, moduleKind, called, _modules, _deferred, c, remaining,
          _callbacks, _lastRunTimeStamps, timeStamp, fetches,
          jobs, cbCount, reported, watchCalls, shiftSeen, outsideLoader>>

Elements == 1..NumElements

\* an import(path) call and what became of it
NewFetch(key, lazy, elements) ==
  [key |-> key, lazy |-> lazy, elements |-> elements, st |-> "loading",
   initCalled |-> FALSE, initArgs |-> <<>>, log |-> "none"]

ImmediateFetches_perElement(modules) ==
  LET RECURSIVE Walk(_)
      Walk(i) ==
        IF i > Len(modules) THEN <<>>
        ELSE [j \in 1..Len(modules[i].elements) |->
                NewFetch(modules[i].key, FALSE, modules[i].elements)]
             \o Walk(i + 1)
  IN Walk(1)

\* the loop over the entries of modules: one import() per key
ImmediateFetches(modules) ==
  [i \in 1..Len(modules) |-> NewFetch(modules[i].key, FALSE, modules[i].elements)]

\* the modules the immediate loop iterates over
ImmediateGroup_withDeferred(scan) == scan.modules \o scan.deferred

ImmediateGroup(scan) == scan.modules

\* the closure watchModules created for one entry of deferredModules
WatchCallback(key, elements) ==
  [fn |-> IF impl = "counter" THEN "watchModules_v1" ELSE "watchModules_v2",
   key |-> key, elements |-> elements]

\* the loop over the entries of deferredModules: addListener('docShift', ..)
RECURSIVE RegisterWatches(_, _, _, _)
RegisterWatches(cbs, states, deferred, i) ==
  IF i > Len(deferred) THEN cbs
  ELSE RegisterWatches(
         addListener(cbs, states, "docShift",
                     WatchCallback(deferred[i].key, deferred[i].elements)),
         states, deferred, i + 1)

\* the import() a watch issues for a visible element
LazyFetch_onlyVisible(cb, element) == NewFetch(cb.key, TRUE, <<element>>)

LazyFetch(cb, element) == NewFetch(cb.key, TRUE, cb.elements)

\* the watch's removeListener('docShift', watchModules)
Unwatch_never(cbs, cb) == cbs

Unwatch(cbs, cb) == removeListener(cbs, "docShift", cb)

\* watchModules: the isVisible callback, for each element of the captured
\* list, on the state
\* s = [cbs, last, fetches, deferred, reported, calls, visible, now], where
\* visible holds the elements isVisible reports visible in this frame and
\* now is the frame's timestamp
RECURSIVE WatchElements(_, _, _)
WatchElements(s, cb, i) ==
  IF i > Len(cb.elements) THEN s
  ELSE LET element == cb.elements[i]
           visible == element \in s.visible
           seen == IF visible
                   THEN [s EXCEPT !.reported[cb.key] = @ \cup {element}]
                   ELSE s
           next ==
             IF impl = "counter"
             THEN IF visible
                  THEN LET s1 == IF HasKey(seen.deferred, cb.key)
                                 THEN [seen EXCEPT !.fetches =
                                         Append(@, LazyFetch(cb, element))]
                                 ELSE seen
                       IN [s1 EXCEPT !.cbs = Unwatch(@, cb)]
                  ELSE seen
             ELSE IF ~visible \/ ~HasKey(seen.deferred, cb.key)
                  THEN seen
                  ELSE [seen EXCEPT
                          !.fetches = Append(@, LazyFetch(cb, element)),
                          !.cbs = Unwatch(@, cb)]
       IN WatchElements(next, cb, i + 1)

watchModules(s, cb) ==
  WatchElements([s EXCEPT !.calls[cb.key] = @ + 1], cb, 1)

LastRun(last, id) == IF id \in DOMAIN last THEN last[id] ELSE -1

\* _runListeners, inside requestAnimationFrame: the for-in over one channel
RECURSIVE RunIds(_, _, _)
RunIds(s, event, ids) ==
  IF ids = {} THEN s
  ELSE LET id == MinId(ids)
           s1 == IF /\ id \in DOMAIN s.cbs[event]
                    /\ (LastRun(s.last, id) # s.now \/ event \in _allowMultiple)
                 THEN watchModules([s EXCEPT !.last = (id :> s.now) @@ @],
                                   s.cbs[event][id])
                 ELSE s
       IN RunIds(s1, event, ids \ {id})

\* _runListeners: events.forEach
RECURSIVE RunEvents(_, _, _)
RunEvents(s, events, i) ==
  IF i > Len(events) THEN s
  ELSE RunEvents(RunIds(s, events[i], DOMAIN s.cbs[events[i]]), events, i + 1)

Job(f, stage, rej) == [f |-> f, stage |-> stage, rej |-> rej]

HasInit(key) == moduleKind[key] \in {"initOk", "initThrows"}
InitThrows(key) == moduleKind[key] = "initThrows"

\* the identifiers some element requests, and the elements flagged lazy
RequestedIdents(d) ==
  {k \in Idents : \E el \in DOMAIN d :
                    \E i \in 1..Len(Split(d[el].requires)) :
                      Split(d[el].requires)[i] = k}
LazyElements(d) == {el \in DOMAIN d : Truthy(d[el].requireLazy)}

\* the event handler's own bookkeeping while only the loader is observed
EHIdle ==
  /\ _states = {}
  /\ readyState = "loading"
  /\ document_hidden = FALSE
  /\ rafQueue = <<>>
  /\ frameCalls = <<>>
  /\ frameRuns = {}
  /\ lastCall = <<>>
  /\ calls = 0

\* --------------------------------------------------------------- Init
Init ==
  /\ impl \in Impls
  /\ dom \in [Elements -> [requires : AttrValues, requireLazy : LazyValues]]
  /\ moduleKind \in [Idents -> ModuleKinds]
  /\ \A k \in Idents \ RequestedIdents(dom) : moduleKind[k] = "noInit"
  /\ called = FALSE
  /\ _modules = <<>>
  /\ _deferred = <<>>
  /\ c = 0
  /\ remaining = 0
  /\ _callbacks = [ch \in Channels |-> <<>>]
  /\ _lastRunTimeStamps = <<>>
  /\ timeStamp = 0
  /\ fetches = <<>>
  /\ jobs = <<>>
  /\ cbCount = 0
  /\ reported = [k \in Idents |-> {}]
  /\ watchCalls = [k \in Idents |-> 0]
  /\ shiftSeen = {}
  /\ EHIdle
  /\ DBIdle
  /\ BPIdle
  /\ TKIdle
  /\ SCIdle
  /\ VisIdle
  /\ RDIdle

\* ------------------------------------------------------------ actions
\* dynImports(paths, callback): the scan, the immediate loop, the
\* completion wiring and the deferred loop
DynImports ==
  /\ ~called
  /\ called' = TRUE
  /\ LET scan == domScanner(dom, _modules, _deferred)
         imm == ImmediateFetches(ImmediateGroup(scan))
     IN /\ _modules' = scan.modules
        /\ _deferred' = scan.deferred
        /\ fetches' = fetches \o imm
        /\ c' = IF impl = "counter" THEN scan.totals ELSE c
        /\ remaining' = IF impl = "allSettled" THEN Len(imm) ELSE remaining
        /\ jobs' = IF impl = "allSettled" /\ Len(imm) = 0
                   THEN Append(jobs, Job(0, "allDone", FALSE))
                   ELSE jobs
        /\ \E states \in SUBSET _singleExecution :
             _callbacks' = RegisterWatches(_callbacks, states, scan.deferred, 1)
  /\ UNCHANGED outsideLoader
  /\ UNCHANGED <<impl, dom, moduleKind, _lastRunTimeStamps, timeStamp, cbCount, reported, watchCalls, shiftSeen>>

\* the host finishes loading (or fails to load) the module of one identifier:
\* the promises of all import() calls waiting for it settle, in issue order.
\* The modules that finish in one turn of the event loop do so, in any
\* order, before the turn's microtask checkpoint runs the reaction jobs.
FetchSettle ==
  \E k \in Idents :
    LET waiting(i) == fetches[i].key = k /\ fetches[i].st = "loading"
        order == SelectSeq([i \in 1..Len(fetches) |-> i], waiting)
    IN /\ order # <<>>
       /\ \A j \in 1..Len(jobs) : jobs[j].stage = "then"
       /\ fetches' = [i \in 1..Len(fetches) |->
                        IF waiting(i) THEN [fetches[i] EXCEPT !.st = "arrived"]
                        ELSE fetches[i]]
       /\ jobs' = jobs \o [n \in 1..Len(order) |->
                             Job(order[n], "then", moduleKind[k] = "fetchFails")]
       /\ UNCHANGED outsideLoader
       /\ UNCHANGED <<impl, dom, moduleKind, called, _modules, _deferred, c,
                      remaining, _callbacks, _lastRunTimeStamps, timeStamp,
                      cbCount, reported, watchCalls, shiftSeen>>

\* reaction job of import(path).then(function (module) {...})
ThenJob ==
  /\ jobs # <<>>
  /\ Head(jobs).stage = "then"
  /\ LET job == Head(jobs)
         f == fetches[job.f]
         thrown == impl = "allSettled" /\ InitThrows(f.key)
     IN IF job.rej
        THEN /\ jobs' = Append(Tail(jobs), Job(job.f, "catch", TRUE))
             /\ UNCHANGED <<fetches, c, _deferred>>
        ELSE /\ fetches' = [fetches EXCEPT
                  ![job.f].st = "loaded",
                  ![job.f].initCalled = HasInit(f.key),
                  ![job.f].initArgs = IF HasInit(f.key) THEN f.elements ELSE <<>>,
                  ![job.f].log = IF impl = "counter" /\ InitThrows(f.key)
                                 THEN "initError" ELSE @]
             /\ c' = IF impl = "counter" /\ ~f.lazy THEN c - 1 ELSE c
             /\ _deferred' = IF f.lazy /\ ~thrown
                             THEN Delete(_deferred, f.key) ELSE _deferred
             /\ jobs' = Append(Tail(jobs), Job(job.f, "catch", thrown))
  /\ UNCHANGED outsideLoader
  /\ UNCHANGED <<impl, dom, moduleKind, called, _modules, remaining,
                 _callbacks, _lastRunTimeStamps, timeStamp,
                 cbCount, reported, watchCalls, shiftSeen>>

\* reaction job of .catch(function (error) {...})
CatchJob ==
  /\ jobs # <<>>
  /\ Head(jobs).stage = "catch"
  /\ LET job == Head(jobs)
         f == fetches[job.f]
         after == IF f.lazy THEN <<>>
                  ELSE IF impl = "counter" THEN <<Job(job.f, "finally", FALSE)>>
                  ELSE <<Job(job.f, "element", FALSE)>>
     IN /\ fetches' = IF job.rej
                      THEN [fetches EXCEPT
                              ![job.f].log = IF f.st = "loaded" THEN "initError"
                                             ELSE "fetchError",
                              ![job.f].st = IF f.st = "loaded" THEN @ ELSE "failed"]
                      ELSE fetches
        /\ jobs' = Tail(jobs) \o after
  /\ UNCHANGED outsideLoader
  /\ UNCHANGED <<impl, dom, moduleKind, called, _modules, _deferred, c,
                 remaining, _callbacks, _lastRunTimeStamps, timeStamp, cbCount, reported, watchCalls, shiftSeen>>

\* reaction job of .finally(function (e) { if (!c) {...} })
FinallyJob ==
  /\ jobs # <<>>
  /\ Head(jobs).stage = "finally"
  /\ jobs' = Tail(jobs)
  /\ cbCount' = IF c = 0 THEN cbCount + 1 ELSE cbCount
  /\ UNCHANGED outsideLoader
  /\ UNCHANGED <<impl, dom, moduleKind, called, _modules, _deferred, c,
                 remaining, _callbacks, _lastRunTimeStamps, timeStamp, fetches, reported, watchCalls, shiftSeen>>

\* Promise.allSettled: the reaction to one settled element
ElementJob ==
  /\ jobs # <<>>
  /\ Head(jobs).stage = "element"
  /\ remaining' = remaining - 1
  /\ jobs' = IF remaining' = 0
             THEN Append(Tail(jobs), Job(0, "allDone", FALSE))
             ELSE Tail(jobs)
  /\ UNCHANGED outsideLoader
  /\ UNCHANGED <<impl, dom, moduleKind, called, _modules, _deferred, c,
                 _callbacks, _lastRunTimeStamps, timeStamp,
                 fetches, cbCount, reported, watchCalls, shiftSeen>>

AllDoneJob_afterLazy ==
  /\ jobs # <<>>
  /\ Head(jobs).stage = "allDone"
  /\ jobs' = Tail(jobs)
  /\ cbCount' = IF _deferred = <<>> THEN cbCount + 1 ELSE cbCount
  /\ UNCHANGED outsideLoader
  /\ UNCHANGED <<impl, dom, moduleKind, called, _modules, _deferred, c,
                 remaining, _callbacks, _lastRunTimeStamps, timeStamp, fetches, reported, watchCalls, shiftSeen>>

\* reaction job of Promise.allSettled(importPromises).then(() => {...})
AllDoneJob ==
  /\ jobs # <<>>
  /\ Head(jobs).stage = "allDone"
  /\ jobs' = Tail(jobs)
  /\ cbCount' = cbCount + 1
  /\ UNCHANGED outsideLoader
  /\ UNCHANGED <<impl, dom, moduleKind, called, _modules, _deferred, c,
                 remaining, _callbacks, _lastRunTimeStamps, timeStamp, fetches, reported, watchCalls, shiftSeen>>

\* the lazy identifiers that have an element among the visible ones
VisibleLazyKeys(visible) ==
  {k \in Idents : HasKey(_deferred, k) /\
                  \E i \in 1..Len(Get(_deferred, k)) : Get(_deferred, k)[i] \in visible}

\* an animation frame (counted from the call of dynImports on) whose
\* requestAnimationFrame callback is that of _runListeners(events) for one
\* of the batches that dispatch docShift; the layout decides which of the
\* elements a watch asks about isVisible reports visible
RunListeners ==
  /\ called
  /\ jobs = <<>>
  /\ timeStamp < MaxFrames
  /\ timeStamp' = timeStamp + 1
  /\ \E visible \in SUBSET LazyElements(dom) :
       /\ \E events \in ShiftBatches :
            LET s == RunEvents([cbs |-> _callbacks, last |-> _lastRunTimeStamps,
                                fetches |-> fetches, deferred |-> _deferred,
                                reported |-> reported, calls |-> watchCalls,
                                visible |-> visible, now |-> timeStamp'],
                               events, 1)
            IN /\ _callbacks' = s.cbs
               /\ _lastRunTimeStamps' = s.last
               /\ fetches' = s.fetches
               /\ reported' = s.reported
               /\ watchCalls' = s.calls
       /\ shiftSeen' = shiftSeen \cup VisibleLazyKeys(visible)
  /\ UNCHANGED outsideLoader
  /\ UNCHANGED <<impl, dom, moduleKind, called, _modules, _deferred, c,
                 remaining, jobs, cbCount>>

Next ==
  \/ DynImports
  \/ FetchSettle
  \/ ThenJob
  \/ CatchJob
  \/ FinallyJob
  \/ ElementJob
  \/ AllDoneJob
  \/ RunListeners

Spec == Init /\ [][Next]_vars

\* ------------------------------------------------- vocabulary of the claims
Range(seq) == {seq[i] : i \in 1..Len(seq)}

\* the elements whose attribute names identifier k, lazy-flagged or not
Requesters(k, lazy) ==
  {el \in Elements : /\ Truthy(dom[el].requireLazy) = lazy
                     /\ k \in Range(Split(dom[el].requires))}

\* identifiers requested by lazy-flagged elements only
LazyOnly(k) == Requesters(k, TRUE) # {} /\ Requesters(k, FALSE) = {}

FetchesOf(k, lazy) ==
  {i \in 1..Len(fetches) : fetches[i].key = k /\ fetches[i].lazy = lazy}

InitsOf(k, lazy) == {i \in FetchesOf(k, lazy) : fetches[i].initCalled}

ImmediateIdx == {i \in 1..Len(fetches) : ~fetches[i].lazy}

Settled(i) == fetches[i].st \in {"loaded", "failed"}

AllImmediateSettled == \A i \in ImmediateIdx : Settled(i)

\* dynImports has run, every import() has settled and no reaction is pending
Quiescent ==
  called /\ jobs = <<>> /\ \A i \in 1..Len(fetches) : Settled(i)

\* the init of fetch i was called and threw
InitThrew(i) == fetches[i].initCalled /\ InitThrows(fetches[i].key)

\* a watchModules closure of identifier k is a docShift listener
Watched(k) ==
  \E id \in DOMAIN _callbacks["docShift"] : _callbacks["docShift"][id].key = k

\* ------------------------------------------------------------------ C1
\* C1: with n >= 1 immediate modules the completion callback is invoked at
\* most once, never while an immediate module is still unsettled, and
\* exactly once when all of them have loaded and nothing is pending -- for
\* both implementations and every completion order.
C1_CallbackExactlyOnce ==
  (called /\ Len(_modules) >= 1) =>
    /\ cbCount <= 1
    /\ (cbCount >= 1 => AllImmediateSettled)
    /\ ((Quiescent /\ \A i \in ImmediateIdx : fetches[i].st = "loaded")
          => cbCount = 1)

\* ------------------------------------------------------------------ C2
\* C2: a failed immediate fetch is logged and counts as settled: once every
\* import() has settled and nothing is pending, the completion callback has
\* been invoked although some immediate fetch failed.
C2_FailedFetchStillCompletes ==
  (Quiescent /\ \E i \in ImmediateIdx : fetches[i].st = "failed") =>
    /\ cbCount >= 1
    /\ \A i \in ImmediateIdx :
         fetches[i].st = "failed" => fetches[i].log = "fetchError"

\* ------------------------------------------------------------------ C3
\* C3: across the immediate and the lazy path together an identifier is
\* fetched, and its init called, at most once: never more than once on the
\* immediate path, and never on both paths.
C3_OncePerIdentifierAcrossPaths ==
  \A k \in Idents :
    /\ Cardinality(FetchesOf(k, FALSE)) <= 1
    /\ Cardinality(InitsOf(k, FALSE)) <= 1
    /\ (FetchesOf(k, FALSE) = {} \/ FetchesOf(k, TRUE) = {})
    /\ (InitsOf(k, FALSE) = {} \/ InitsOf(k, TRUE) = {})

\* ------------------------------------------------------------------ C4
\* C4: on the lazy path an identifier is fetched at most once and its init
\* called at most once, however many positive visibility signals arrive.
C4_NoSecondLazyFetch ==
  \A k \in Idents :
    /\ Cardinality(FetchesOf(k, TRUE)) <= 1
    /\ Cardinality(InitsOf(k, TRUE)) <= 1

\* ------------------------------------------------------------------ C5
\* C5: every lazy identifier that had an element visible at a docShift
\* dispatch has been fetched (the watch issues the import() synchronously
\* inside the dispatch).
C5_EveryLazyIdentifierWatched ==
  \A k \in shiftSeen : FetchesOf(k, TRUE) \cup FetchesOf(k, FALSE) # {}

\* ------------------------------------------------------------------ C6
\* C6: one run of dynImports issues exactly one import() for each identifier
\* of the immediate group, however many elements requested it, and none on
\* the immediate path for any other identifier.
C6_OneFetchPerImmediateIdentifier ==
  \A k \in Idents :
    Cardinality(FetchesOf(k, FALSE)) =
      IF called /\ Requesters(k, FALSE) # {} THEN 1 ELSE 0

C6_Witness ==
  /\ called
  /\ \E k \in Idents : /\ Cardinality(Requesters(k, FALSE)) >= 2
                       /\ Cardinality(FetchesOf(k, FALSE)) = 1

\* ------------------------------------------------------------------ C7
\* C7: a throwing init is caught and logged, every loaded module that has an
\* init still had it called, and when an immediate module's init threw the
\* completion callback has nevertheless been invoked once everything has
\* settled.
C7_InitThrowIsolated ==
  Quiescent =>
    /\ \A i \in 1..Len(fetches) : InitThrew(i) => fetches[i].log = "initError"
    /\ \A i \in 1..Len(fetches) :
         (fetches[i].st = "loaded" /\ HasInit(fetches[i].key))
           => fetches[i].initCalled
    /\ ((\E i \in ImmediateIdx : InitThrew(i)) => cbCount >= 1)

C9_NoLazyFetchBeforeVisible ==
  /\ \A i \in 1..Len(fetches) :
       fetches[i].lazy => reported[fetches[i].key] # {}
  /\ \A k \in Idents :
       (LazyOnly(k) /\ FetchesOf(k, TRUE) \cup FetchesOf(k, FALSE) # {})
         => reported[k] # {}

\* the completion callback has fired while a lazy identifier is unloaded
C9_Witness ==
  /\ cbCount >= 1
  /\ \E k \in Idents :
       LazyOnly(k) /\ FetchesOf(k, TRUE) \cup FetchesOf(k, FALSE) = {}

\* ----------------------------------------------------------------- C10
\* C10: at the end of the step in which an element of a lazy identifier is
\* first reported visible its watch is no longer a docShift listener, and
\* from then on no dispatch invokes that identifier's watch callback.
C10_WatchRemovedOnFirstVisible ==
  [][\A k \in Idents :
       reported'[k] # {} =>
         /\ ~(Watched(k))'
         /\ (reported[k] # {} => watchCalls'[k] = watchCalls[k])]_vars

\* a later dispatch has passed while the fetch is still in flight and
\* another element of the set was never reported
C10_Witness ==
  \E k \in Idents :
    /\ reported[k] # {}
    /\ reported[k] # Requesters(k, TRUE)
    /\ \E i \in FetchesOf(k, TRUE) : fetches[i].st = "loading"
    /\ ~Watched(k)
    /\ watchCalls[k] = 1
    /\ timeStamp >= 2

\* ----------------------------------------------------------------- C11
\* C11: when no element requests a non-lazy module (the immediate group is
\* empty) the completion callback is still invoked exactly once: never more
\* than once, and once dynImports has run and no reaction is pending it has
\* been invoked.
C11_CallbackOnceWhenImmediateEmpty ==
  (called /\ Len(_modules) = 0) =>
    /\ cbCount <= 1
    /\ (Quiescent => cbCount = 1)

\* =================================================== the event handler alone
\* eventHandler v2.5 with plain listeners: the constructor's handlers, the
\* animation frames that serve _runListeners, addListener and removeListener.

MaxCalls == 3          \* addListener / removeListener calls
MaxQueue == 2          \* _runListeners requests waiting for one frame

\* three listener functions; f and g have the same source text
Listeners == {"f", "g", "h"}

\* property names that this._callbacks[event] finds on Object.prototype
InheritedNames == {"toString"}

\* the names the callers pass as event
CallNames == {"docReady", "docLoaded", "imgsLoaded", "docShift",
              "breakPointChange", "click"} \cup InheritedNames

\* the constructor's handlers and the events each passes to _runListeners
Handlers_scrollWithoutShift ==
  [DOMContentLoaded |-> <<"docReady", "docShift">>,
   load |-> <<"docLoaded">>,
   breakPointChange |-> <<"breakPointChange">>,
   resize |-> <<"resize">>,
   startResize |-> <<"startResize">>,
   endResize |-> <<"endResize", "docShift">>,
   bodyResize |-> <<"docShift", "bodyResize">>,
   startScroll |-> <<"startScroll">>,
   scroll |-> <<"scroll">>,
   endScroll |-> <<"endScroll">>,
   docBlur |-> <<"docBlur">>,
   docFocus |-> <<"docFocus", "docShift">>,
   imgsLoaded |-> <<"imgsLoaded">>]
Handlers ==
  [DOMContentLoaded |-> <<"docReady", "docShift">>,
   load |-> <<"docLoaded">>,
   breakPointChange |-> <<"breakPointChange">>,
   resize |-> <<"resize">>,
   startResize |-> <<"startResize">>,
   endResize |-> <<"endResize", "docShift">>,
   bodyResize |-> <<"docShift", "bodyResize">>,
   startScroll |-> <<"startScroll">>,
   scroll |-> <<"scroll", "docShift">>,
   endScroll |-> <<"endScroll">>,
   docBlur |-> <<"docBlur">>,
   docFocus |-> <<"docFocus", "docShift">>,
   imgsLoaded |-> <<"imgsLoaded">>]

\* the handlers of the debounced and custom events, which may run any time
RepeatedHandlers == {"breakPointChange", "resize", "startResize", "endResize",
                     "bodyResize", "startScroll", "scroll", "endScroll"}

\* _runListeners(events): requestAnimationFrame(...) queues the request
Request(trigger) == [trigger |-> trigger, events |-> Handlers[trigger]]

\* _runListeners: the for-in over the listeners of one channel
RECURSIVE ListenerLoop_unguarded(_, _, _, _, _)
ListenerLoop_unguarded(s, cbs, event, ids, now) ==
  IF ids = {} THEN s
  ELSE LET id == MinId(ids)
           cb == cbs[event][id]
           s1 == [s EXCEPT !.last = (id :> now) @@ @,
                           !.calls[cb.fn] = Append(@, event)]
       IN ListenerLoop_unguarded(s1, cbs, event, ids \ {id}, now)
RECURSIVE ListenerLoop(_, _, _, _, _)
ListenerLoop(s, cbs, event, ids, now) ==
  IF ids = {} THEN s
  ELSE LET id == MinId(ids)
           cb == cbs[event][id]
           s1 == IF LastRun(s.last, id) # now \/ event \in _allowMultiple
                 THEN [s EXCEPT !.last = (id :> now) @@ @,
                                !.calls[cb.fn] = Append(@, event)]
                 ELSE s
       IN ListenerLoop(s1, cbs, event, ids \ {id}, now)

\* _runListeners, inside requestAnimationFrame: events.forEach
RECURSIVE EventLoop(_, _, _, _, _)
EventLoop(s, cbs, req, i, now) ==
  IF i > Len(req.events) THEN s
  ELSE LET event == req.events[i]
           s1 == ListenerLoop(s, cbs, event, DOMAIN cbs[event], now)
       IN EventLoop([s1 EXCEPT !.runs = @ \cup {<<req.trigger, event>>}],
                    cbs, req, i + 1, now)

\* one animation frame: the queued requestAnimationFrame callbacks run in
\* the order they were requested, all with the frame's timeStamp
RECURSIVE FrameLoop(_, _, _, _, _)
FrameLoop(s, cbs, queue, i, now) ==
  IF i > Len(queue) THEN s
  ELSE FrameLoop(EventLoop(s, cbs, queue[i], 1, now), cbs, queue, i + 1, now)

NoCall == [op |-> "none", event |-> "none", fn |-> "none", ret |-> "none",
           invoked |-> FALSE, kind |-> "none", before |-> "other"]

\* the handler has been constructed, the document being still loading, or
\* ready, or fully loaded at that moment; registry is this._callbacks
EHInitWith(registry) ==
  /\ readyState \in {"loading", "interactive", "complete"}
  /\ _states = IF readyState # "loading" THEN {"docReady"} ELSE {}
  /\ rafQueue = IF readyState # "loading"
                THEN <<Request("DOMContentLoaded")>> ELSE <<>>
  /\ document_hidden = FALSE
  /\ _callbacks = registry
  /\ _lastRunTimeStamps = <<>>
  /\ timeStamp = 0
  /\ frameCalls = [fn \in Listeners |-> <<>>]
  /\ frameRuns = {}
  /\ lastCall = NoCall
  /\ calls = 0
  /\ impl = "allSettled"
  /\ dom = [el \in Elements |-> [requires |-> A, requireLazy |-> "undefined"]]
  /\ moduleKind = [k \in Idents |-> "noInit"]
  /\ called = FALSE
  /\ _modules = <<>>
  /\ _deferred = <<>>
  /\ c = 0
  /\ remaining = 0
  /\ fetches = <<>>
  /\ jobs = <<>>
  /\ cbCount = 0
  /\ reported = [k \in Idents |-> {}]
  /\ watchCalls = [k \in Idents |-> 0]
  /\ shiftSeen = {}
  /\ DBIdle
  /\ BPIdle
  /\ TKIdle
  /\ SCIdle
  /\ VisIdle
  /\ RDIdle

\* the frame's callbacks have run and the browser has not yet moved on
InFrame == frameRuns # {}

\* this._callbacks as the constructor leaves it, seen through property
\* lookup: the channels, and what Object.prototype lends the object literal
NoListeners == [ch \in Channels \cup InheritedNames |-> <<>>]

EHInit == EHInitWith(NoListeners)

\* what the event handler's steps leave alone
outsideEH == <<impl, dom, moduleKind, called, _modules, _deferred, c, remaining,
               fetches, jobs, cbCount, reported, watchCalls, shiftSeen, dbVars,
               bpVars, tkVars, scVars, visVars, rdVars>>

\* window "DOMContentLoaded"
DOMContentLoaded ==
  /\ ~InFrame
  /\ readyState = "loading"
  /\ Len(rafQueue) < MaxQueue
  /\ readyState' = "interactive"
  /\ rafQueue' = Append(rafQueue, Request("DOMContentLoaded"))
  /\ _states' = _states \cup {"docReady"}
  /\ UNCHANGED <<_callbacks, _lastRunTimeStamps, timeStamp, document_hidden,
                 frameCalls, frameRuns, lastCall, calls, outsideEH>>

\* window "load"
Load ==
  /\ ~InFrame
  /\ readyState = "interactive"
  /\ Len(rafQueue) < MaxQueue
  /\ readyState' = "complete"
  /\ rafQueue' = Append(rafQueue, Request("load"))
  /\ _states' = _states \cup {"docLoaded"}
  /\ UNCHANGED <<_callbacks, _lastRunTimeStamps, timeStamp, document_hidden,
                 frameCalls, frameRuns, lastCall, calls, outsideEH>>

\* Promise.all(images not yet complete).then(...)
ImgsLoaded ==
  /\ ~InFrame
  /\ "imgsLoaded" \notin _states
  /\ Len(rafQueue) < MaxQueue
  /\ rafQueue' = Append(rafQueue, Request("imgsLoaded"))
  /\ _states' = _states \cup {"imgsLoaded"}
  /\ UNCHANGED <<_callbacks, _lastRunTimeStamps, timeStamp, readyState,
                 document_hidden, frameCalls, frameRuns, lastCall, calls,
                 outsideEH>>

\* the breakPointChange listener and the debounced resize, body-resize and
\* scroll callbacks
RepeatedHandler ==
  \E trigger \in RepeatedHandlers :
    /\ ~InFrame
    /\ Len(rafQueue) < MaxQueue
    /\ rafQueue' = Append(rafQueue, Request(trigger))
    /\ UNCHANGED <<_callbacks, _lastRunTimeStamps, timeStamp, _states,
                   readyState, document_hidden, frameCalls, frameRuns,
                   lastCall, calls, outsideEH>>

\* document "visibilitychange" with document.hidden changed
VisibilityChange ==
  /\ ~InFrame
  /\ Len(rafQueue) < MaxQueue
  /\ document_hidden' = ~document_hidden
  /\ rafQueue' = Append(rafQueue, IF document_hidden' THEN Request("docBlur")
                                  ELSE Request("docFocus"))
  /\ UNCHANGED <<_callbacks, _lastRunTimeStamps, timeStamp, _states,
                 readyState, frameCalls, frameRuns, lastCall, calls, outsideEH>>

Frame_registryBeforeLastCall ==
  /\ ~InFrame
  /\ rafQueue # <<>>
  /\ timeStamp < MaxFrames
  /\ timeStamp' = timeStamp + 1
  /\ LET registry ==
           IF lastCall.op = "add" /\ lastCall.kind = "assigned"
           THEN removeListener(_callbacks, lastCall.event, [fn |-> lastCall.fn])
           ELSE IF lastCall.op = "remove" /\ lastCall.kind = "deleted"
           THEN addListener(_callbacks, {}, lastCall.event, [fn |-> lastCall.fn])
           ELSE _callbacks
         s == FrameLoop([last |-> _lastRunTimeStamps,
                         calls |-> [fn \in Listeners |-> <<>>],
                         runs |-> {}],
                        registry, rafQueue, 1, timeStamp')
     IN /\ _lastRunTimeStamps' = s.last
        /\ frameCalls' = s.calls
        /\ frameRuns' = s.runs
  /\ rafQueue' = <<>>
  /\ UNCHANGED <<_callbacks, _states, readyState, document_hidden, lastCall,
                 calls, outsideEH>>

\* the browser renders a frame
Frame ==
  /\ ~InFrame
  /\ rafQueue # <<>>
  /\ timeStamp < MaxFrames
  /\ timeStamp' = timeStamp + 1
  /\ LET s == FrameLoop([last |-> _lastRunTimeStamps,
                         calls |-> [fn \in Listeners |-> <<>>],
                         runs |-> {}],
                        _callbacks, rafQueue, 1, timeStamp')
     IN /\ _lastRunTimeStamps' = s.last
        /\ frameCalls' = s.calls
        /\ frameRuns' = s.runs
  /\ rafQueue' = <<>>
  /\ UNCHANGED <<_callbacks, _states, readyState, document_hidden, lastCall,
                 calls, outsideEH>>

\* the frame is over
FrameDone ==
  /\ InFrame
  /\ frameRuns' = {}
  /\ frameCalls' = [fn \in Listeners |-> <<>>]
  /\ UNCHANGED <<_callbacks, _lastRunTimeStamps, timeStamp, _states, readyState,
                 document_hidden, rafQueue, lastCall, calls, outsideEH>>

\* what the call before this one did, if it named the same channel and a
\* callback of the same source text
Before(event, fn) ==
  IF lastCall.event = event /\ lastCall.op # "none"
     /\ SourceText([fn |-> lastCall.fn]) = SourceText([fn |-> fn])
  THEN lastCall.kind ELSE "other"

\* eventHandler.addListener(event, callback)
AddListener ==
  \E event \in CallNames, fn \in Listeners :
    LET found == event \in DOMAIN _callbacks
        passed == found /\ event \in _singleExecution /\ event \in _states
        known == found /\ ListenerId([fn |-> fn]) \in DOMAIN _callbacks[event]
    IN /\ ~InFrame
       /\ calls < MaxCalls
       /\ calls' = calls + 1
       /\ _callbacks' = addListener(_callbacks, _states, event, [fn |-> fn])
       /\ lastCall' = [op |-> "add", event |-> event, fn |-> fn,
                       ret |-> IF found THEN "callback" ELSE "function(){}",
                       invoked |-> passed,
                       kind |-> IF ~found THEN "noSuchEvent"
                                ELSE IF passed THEN "invoked"
                                ELSE IF known THEN "skipped" ELSE "assigned",
                       before |-> Before(event, fn)]
       /\ UNCHANGED <<_lastRunTimeStamps, timeStamp, _states, readyState,
                      document_hidden, rafQueue, frameCalls, frameRuns,
                      outsideEH>>

\* eventHandler.removeListener(event, callback)
RemoveListener ==
  \E event \in CallNames, fn \in Listeners :
    LET found == event \in DOMAIN _callbacks
        known == found /\ ListenerId([fn |-> fn]) \in DOMAIN _callbacks[event]
    IN /\ ~InFrame
       /\ calls < MaxCalls
       /\ calls' = calls + 1
       /\ _callbacks' = removeListener(_callbacks, event, [fn |-> fn])
       /\ lastCall' = [op |-> "remove", event |-> event, fn |-> fn,
                       ret |-> IF found THEN "undefined" ELSE "false",
                       invoked |-> FALSE,
                       kind |-> IF ~found THEN "noSuchEvent"
                                ELSE IF known THEN "deleted" ELSE "absent",
                       before |-> Before(event, fn)]
       /\ UNCHANGED <<_lastRunTimeStamps, timeStamp, _states, readyState,
                      document_hidden, rafQueue, frameCalls, frameRuns,
                      outsideEH>>

\* the callers' side: registration and removal around the page's lifecycle
RegNext ==
  \/ DOMContentLoaded
  \/ Load
  \/ ImgsLoaded
  \/ Frame
  \/ FrameDone
  \/ AddListener
  \/ RemoveListener

SpecReg == EHInit /\ [][RegNext]_vars

\* ----------------------------------------------------------------- C34
\* callback fn is stored under the channel
Stored(cbs, event, fn) ==
  /\ ListenerId([fn |-> fn]) \in DOMAIN cbs[event]
  /\ cbs[event][ListenerId([fn |-> fn])].fn = fn

\* the channels of the requests waiting for the frame
RequestedEvents == UNION {Range(rafQueue[i].events) : i \in 1..Len(rafQueue)}

\* C34: a frame invokes a callback for a channel only if the callback is
\* stored under that channel when the frame runs, and invokes every
\* callback that is then stored under a channel of a waiting request (a
\* callback of the same source text counting as the same callback, which
\* runs once per frame), whatever the registry held when the request was
\* made.
C34_RegistryReadAtFrameTime ==
  [][timeStamp' # timeStamp =>
       /\ \A fn \in Listeners : \A event \in Range(frameCalls'[fn]) :
            Stored(_callbacks, event, fn) /\ event \in RequestedEvents
       /\ \A event \in RequestedEvents : \A fn \in Listeners :
            Stored(_callbacks, event, fn) =>
              \E same \in Listeners : /\ ListenerId([fn |-> same]) = ListenerId([fn |-> fn])
                                      /\ frameCalls'[same] # <<>>]_vars

\* the handler was constructed on a loaded document, its docShift request
\* waiting; then f and h were added to docShift and f removed again; the
\* frame ran h and not f
C34_Witness ==
  /\ readyState = "complete"
  /\ timeStamp = 1
  /\ InFrame
  /\ calls = 3
  /\ lastCall.op = "remove" /\ lastCall.event = "docShift"
  /\ lastCall.fn = "f" /\ lastCall.kind = "deleted"
  /\ frameCalls["f"] = <<>>
  /\ "docShift" \in Range(frameCalls["h"])

\* the subscriptions the listeners of the dispatch runs may hold, in the
\* order in which they are made
Subscriptions ==
  <<<<"docReady", "f">>, <<"docShift", "f">>, <<"breakPointChange", "f">>,
    <<"docReady", "g">>, <<"docShift", "g">>, <<"breakPointChange", "g">>,
    <<"docReady", "h">>, <<"docShift", "h">>, <<"breakPointChange", "h">>>>

\* addListener(channel, listener) for every subscription of a plan
RECURSIVE Subscribe(_, _, _)
Subscribe(cbs, plan, i) ==
  IF i > Len(Subscriptions) THEN cbs
  ELSE Subscribe(IF i \in plan
                 THEN addListener(cbs, {}, Subscriptions[i][1],
                                  [fn |-> Subscriptions[i][2]])
                 ELSE cbs,
                 plan, i + 1)

\* the registries that subscriptions made right after construction leave
Registries ==
  {Subscribe(NoListeners, plan, 1) : plan \in SUBSET (1..Len(Subscriptions))}

\* the dispatch side: listeners subscribed while the handler was fresh, then
\* the handlers and the frames
DispatchInit == \E registry \in Registries : EHInitWith(registry)

DispatchNext ==
  \/ DOMContentLoaded
  \/ Load
  \/ ImgsLoaded
  \/ RepeatedHandler
  \/ VisibilityChange
  \/ Frame
  \/ FrameDone

SpecEH == DispatchInit /\ [][DispatchNext]_vars

\* ----------------------------------------------------------------- C12
\* C12: within one animation frame a listener is invoked at most once
\* through the channels that are not in the allow-multiple set, however many
\* requests and channels the frame serves.
C12_AtMostOncePerFrame ==
  \A fn \in DOMAIN frameCalls :
    Cardinality({i \in 1..Len(frameCalls[fn]) :
                   frameCalls[fn][i] \notin _allowMultiple}) <= 1

\* a frame has served two requests that both dispatch docShift, and a
\* listener subscribed to docReady and docShift was invoked once in it
C12_Witness ==
  /\ InFrame
  /\ Cardinality({r \in frameRuns : r[2] = "docShift"}) >= 2
  /\ \E fn \in Listeners :
       /\ \E id \in DOMAIN _callbacks["docReady"] : _callbacks["docReady"][id].fn = fn
       /\ \E id \in DOMAIN _callbacks["docShift"] : _callbacks["docShift"][id].fn = fn
       /\ frameCalls[fn] = <<"docReady">>

\* ----------------------------------------------------------------- C13
\* C13: on a channel of the fixed set, addListener with a callback whose
\* source text is already registered there changes nothing and returns
\* normally; after an addListener that registers or finds the callback
\* registered, the channel holds one listener for it; and after one
\* removeListener with that callback the channel holds none.
C13_DuplicateRegistration ==
  [][calls' = calls + 1 =>
       LET ev == lastCall'.event
           id == ListenerId([fn |-> lastCall'.fn])
       IN ev \in Channels =>
            /\ (lastCall'.op = "add" /\ id \in DOMAIN _callbacks[ev]
                  => _callbacks' = _callbacks /\ lastCall'.ret = "callback")
            /\ (lastCall'.op = "add" /\ ~lastCall'.invoked
                  => id \in DOMAIN _callbacks'[ev])
            /\ (lastCall'.op = "remove" => id \notin DOMAIN _callbacks'[ev])]_vars

\* g, whose source text is that of the registered f, was added and skipped,
\* and then one removeListener emptied the channel
C13_Witness ==
  /\ lastCall.op = "remove"
  /\ lastCall.kind = "deleted"
  /\ lastCall.before = "skipped"
  /\ lastCall.event \in Channels
  /\ _callbacks[lastCall.event] = <<>>

\* ----------------------------------------------------------------- C14
\* the condition behind a one-shot channel holds
ConditionTrue(event) ==
  CASE event = "docReady" -> readyState # "loading"
    [] event = "docLoaded" -> readyState = "complete"
    [] event = "imgsLoaded" -> "imgsLoaded" \in _states
    [] OTHER -> FALSE

\* C14: addListener on docReady, docLoaded or imgsLoaded, called when the
\* channel's condition already holds, invokes the callback inside the call
\* and registers nothing.
C14_LateOneShotRunsAtOnce ==
  [][(/\ calls' = calls + 1
      /\ lastCall'.op = "add"
      /\ lastCall'.event \in _singleExecution
      /\ ConditionTrue(lastCall'.event))
       => lastCall'.invoked /\ _callbacks' = _callbacks]_vars

\* ----------------------------------------------------------------- C15
\* C15: addListener and removeListener with a name outside the fixed channel
\* set leave the registry as it was, and addListener returns the no-op
\* function.
C15_UnknownChannelIgnored ==
  [][(calls' = calls + 1 /\ lastCall'.event \notin Channels)
       => /\ _callbacks' = _callbacks
          /\ (lastCall'.op = "add" => lastCall'.ret = "function(){}")]_vars

\* ----------------------------------------------------------------- C16
\* the triggers the layout-shift channel is said to follow
ShiftTriggers == {"endResize", "scroll", "DOMContentLoaded", "docFocus",
                  "bodyResize"}

\* C16: a frame serves every waiting request of resize-end, scroll,
\* document-ready, visibility-regained and body-resize by running the
\* docShift channel: afterwards every docShift listener has run in that frame.
C16_ShiftFollowsTriggers ==
  [][timeStamp' # timeStamp =>
       \A i \in 1..Len(rafQueue) :
         rafQueue[i].trigger \in ShiftTriggers =>
           /\ <<rafQueue[i].trigger, "docShift">> \in frameRuns'
           /\ \A id \in DOMAIN _callbacks["docShift"] :
                LastRun(_lastRunTimeStamps', id) = timeStamp']_vars

\* a frame has served a scroll and a body-resize request and invoked a
\* listener through docShift
C16_Witness ==
  /\ InFrame
  /\ <<"scroll", "docShift">> \in frameRuns
  /\ <<"bodyResize", "docShift">> \in frameRuns
  /\ \E fn \in Listeners : frameCalls[fn] = <<"docShift">>

\* ========================================================= the debouncers
\* One function returned by debounceThis, its two timeouts and the clock.
\* Time is counted in ticks. A timeout runs at the tick it is due, before
\* any raw event of that tick is handled; two timeouts due at the same tick
\* run in the order in which they were set.

Threshold == 2         \* options.threshold, in ticks
MaxTime == 6           \* the clock stops here

\* the debouncers the eventHandler constructor makes; the channel is the
\* first event the debounced callback passes to _runListeners
Debouncers ==
  {[channel |-> "resize", execStart |-> TRUE, execWhile |-> TRUE, execDone |-> TRUE],
   [channel |-> "startResize", execStart |-> TRUE, execWhile |-> FALSE, execDone |-> FALSE],
   [channel |-> "endResize", execStart |-> FALSE, execWhile |-> FALSE, execDone |-> TRUE],
   [channel |-> "bodyResize", execStart |-> FALSE, execWhile |-> FALSE, execDone |-> TRUE],
   [channel |-> "startScroll", execStart |-> TRUE, execWhile |-> FALSE, execDone |-> FALSE],
   [channel |-> "scroll", execStart |-> FALSE, execWhile |-> TRUE, execDone |-> FALSE],
   [channel |-> "endScroll", execStart |-> FALSE, execWhile |-> FALSE, execDone |-> TRUE]}

\* no timeout pending
NoTimer == -1

\* debounceThis(callback, opts): let options = {timer: 0, whileTimer: 0,
\* busy: false, ..._defaults, ...opts}. timer is the tick at which the done
\* timeout is due; whileTimer.id says that options.whileTimer is truthy and
\* whileTimer.due is the tick at which that timeout is due.
debounceThis(opts) ==
  [channel |-> opts.channel,
   timer |-> NoTimer,
   whileTimer |-> [id |-> FALSE, due |-> NoTimer],
   busy |-> FALSE,
   threshold |-> Threshold,
   execStart |-> opts.execStart,
   execWhile |-> opts.execWhile,
   execDone |-> opts.execDone]

\* the loader's state other than the document and the scanner's maps
LoaderRestIdle ==
  /\ impl = "allSettled"
  /\ moduleKind = [k \in Idents |-> "noInit"]
  /\ called = FALSE
  /\ c = 0
  /\ remaining = 0
  /\ fetches = <<>>
  /\ jobs = <<>>
  /\ cbCount = 0
  /\ reported = [k \in Idents |-> {}]
  /\ watchCalls = [k \in Idents |-> 0]
  /\ shiftSeen = {}

\* the loader while something else is observed
LoaderIdle ==
  /\ dom = [el \in Elements |-> [requires |-> A, requireLazy |-> "undefined"]]
  /\ _modules = <<>>
  /\ _deferred = <<>>
  /\ LoaderRestIdle

\* the loader and the event handler while a debouncer is observed
OthersIdle ==
  /\ LoaderIdle
  /\ _callbacks = NoListeners
  /\ _lastRunTimeStamps = <<>>
  /\ timeStamp = 0
  /\ EHIdle

\* what the debouncer's steps leave alone
outsideDB == <<impl, dom, moduleKind, called, _modules, _deferred, c, remaining,
               fetches, jobs, cbCount, reported, watchCalls, shiftSeen,
               _callbacks, _lastRunTimeStamps, timeStamp, ehVars, bpVars,
               tkVars, scVars, visVars, rdVars>>

DBInit ==
  /\ options \in {debounceThis(opts) : opts \in Debouncers}
  /\ clock = 0
  /\ lastRaw = -1
  /\ burstFirst = -1
  /\ burstCalls = <<>>
  /\ lastCallAt = -1
  /\ minGap = -1
  /\ OthersIdle
  /\ BPIdle
  /\ TKIdle
  /\ SCIdle
  /\ VisIdle
  /\ RDIdle

\* a timeout set earlier is due
DoneDue == options.timer # NoTimer /\ options.timer <= clock
WhileDue == options.whileTimer.due # NoTimer /\ options.whileTimer.due <= clock

\* the smallest gap once the callback is called at the present tick
GapAfterCall ==
  IF lastCallAt < 0 THEN minGap
  ELSE IF minGap < 0 \/ clock - lastCallAt < minGap THEN clock - lastCallAt
  ELSE minGap

\* if (!options.busy && options.execStart)
StartCall_always(o) == o.execStart

StartCall(o) == ~o.busy /\ o.execStart

\* clearTimeout(options.timer); ... options.timer = setTimeout(..., threshold)
DoneTimer_notCleared(o, t) ==
  IF o.timer # NoTimer THEN o.timer ELSE t + o.threshold

DoneTimer(o, t) == t + o.threshold

\* the returned function is called with a raw event
RawEvent ==
  /\ ~DoneDue /\ ~WhileDue
  /\ LET fresh == lastRaw < 0 \/ clock - lastRaw >= options.threshold
         start == StartCall(options)
         arm == options.execWhile /\ ~options.whileTimer.id
     IN /\ options' = [options EXCEPT
                         !.busy = IF start THEN TRUE ELSE @,
                         !.whileTimer = IF arm
                                        THEN [id |-> TRUE,
                                              due |-> clock + options.threshold]
                                        ELSE @,
                         !.timer = DoneTimer(options, clock)]
        /\ burstFirst' = IF fresh THEN clock ELSE burstFirst
        /\ burstCalls' = (IF fresh THEN <<>> ELSE burstCalls)
                           \o (IF start THEN <<<<"start", clock>>>> ELSE <<>>)
        /\ lastCallAt' = IF start THEN clock ELSE lastCallAt
        /\ minGap' = IF start THEN GapAfterCall ELSE minGap
  /\ lastRaw' = clock
  /\ UNCHANGED <<clock, outsideDB>>

\* options.whileTimer = setTimeout(() => {...}, options.threshold) runs
WhileTimeout ==
  /\ WhileDue
  /\ options' = [options EXCEPT !.whileTimer = [id |-> FALSE, due |-> NoTimer]]
  /\ burstCalls' = Append(burstCalls, <<"while", clock>>)
  /\ lastCallAt' = clock
  /\ minGap' = GapAfterCall
  /\ UNCHANGED <<clock, lastRaw, burstFirst, outsideDB>>

DoneTimeout_keepsBusy ==
  /\ DoneDue
  /\ ~WhileDue
  /\ options' = [options EXCEPT !.timer = NoTimer,
                                !.whileTimer.due = NoTimer]
  /\ burstCalls' = IF options.execDone
                   THEN Append(burstCalls, <<"done", clock>>) ELSE burstCalls
  /\ lastCallAt' = IF options.execDone THEN clock ELSE lastCallAt
  /\ minGap' = IF options.execDone THEN GapAfterCall ELSE minGap
  /\ UNCHANGED <<clock, lastRaw, burstFirst, outsideDB>>

\* options.timer = setTimeout(() => {...}, options.threshold) runs
DoneTimeout ==
  /\ DoneDue
  /\ ~WhileDue
  /\ options' = [options EXCEPT !.busy = FALSE,
                                !.timer = NoTimer,
                                !.whileTimer.due = NoTimer]
  /\ burstCalls' = IF options.execDone
                   THEN Append(burstCalls, <<"done", clock>>) ELSE burstCalls
  /\ lastCallAt' = IF options.execDone THEN clock ELSE lastCallAt
  /\ minGap' = IF options.execDone THEN GapAfterCall ELSE minGap
  /\ UNCHANGED <<clock, lastRaw, burstFirst, outsideDB>>

\* time passes
Tick ==
  /\ ~DoneDue /\ ~WhileDue
  /\ clock < MaxTime
  /\ clock' = clock + 1
  /\ UNCHANGED <<options, lastRaw, burstFirst, burstCalls, lastCallAt, minGap,
                 outsideDB>>

DBNext ==
  \/ RawEvent
  \/ WhileTimeout
  \/ DoneTimeout
  \/ Tick

SpecDebounce == DBInit /\ [][DBNext]_vars

\* the calls of one type made since the current burst began
CallsOf(type) == SelectSeq(burstCalls, LAMBDA call : call[1] = type)

\* ----------------------------------------------------------------- C17
\* C17: for the start debouncers (startResize, startScroll), from the first
\* raw event of a burst on, the callback has been called exactly once for
\* the burst, and that call was made at the burst's first raw event.
C17_StartOncePerBurst ==
  (options.channel \in {"startResize", "startScroll"} /\ lastRaw >= 0) =>
    burstCalls = <<<<"start", burstFirst>>>>

\* a burst of three raw events at three different ticks
C17_Witness ==
  /\ options.channel = "startResize"
  /\ burstCalls = <<<<"start", burstFirst>>>>
  /\ lastRaw >= burstFirst + 2
  /\ clock = lastRaw
  /\ options.busy

\* ----------------------------------------------------------------- C18
\* C18: for the end debouncers (endResize, endScroll), no end call is made
\* for a burst while less than a threshold has passed since its latest raw
\* event, and once the threshold has passed exactly one has been made, one
\* threshold after that raw event.
C18_EndOncePerBurst ==
  (options.channel \in {"endResize", "endScroll"} /\ lastRaw >= 0) =>
    /\ (clock < lastRaw + options.threshold => burstCalls = <<>>)
    /\ (clock > lastRaw + options.threshold
          => burstCalls = <<<<"done", lastRaw + options.threshold>>>>)
    /\ (clock = lastRaw + options.threshold
          => burstCalls \in {<<>>, <<<<"done", clock>>>>})

\* the end of a burst whose raw events kept resetting the timer
C18_Witness ==
  /\ options.channel = "endResize"
  /\ lastRaw >= burstFirst + 2
  /\ burstCalls = <<<<"done", lastRaw + options.threshold>>>>
  /\ clock > lastRaw + options.threshold

\* ----------------------------------------------------------------- C37
\* the step handles a raw event
RawStep ==
  /\ clock' = clock
  /\ lastRaw' = clock
  /\ options'.timer = clock + options.threshold

\* the step calls the callback with debounceType 'start'
StartStep ==
  /\ RawStep
  /\ Len(burstCalls') >= 1
  /\ burstCalls'[Len(burstCalls')] = <<"start", clock>>
  /\ lastCallAt' = clock
  /\ (burstCalls' = burstCalls => lastCallAt # clock)

\* C37: for a debouncer with execStart, busy becomes true only in a step
\* that makes a start call and false only in the step in which the done
\* timeout runs; a raw event that comes a threshold or more after the
\* previous one (or is the first) makes a start call; and a raw event that
\* finds the done timeout pending makes none.
C37_StartRearms ==
  [][options.execStart =>
       /\ (~options.busy /\ options'.busy) => StartStep
       /\ (options.busy /\ ~options'.busy) =>
            DoneDue /\ options'.timer = NoTimer
       /\ (RawStep /\ (lastRaw < 0 \/ clock - lastRaw >= options.threshold)) =>
            /\ ~options.busy
            /\ options'.busy
            /\ burstCalls' = <<<<"start", clock>>>>
       /\ (RawStep /\ options.timer # NoTimer) =>
            /\ options.busy
            /\ options'.busy
            /\ CallsOf("start") = SelectSeq(burstCalls', LAMBDA call : call[1] = "start")]_vars

\* the start call of a second burst, a threshold or more after the first
C37_Witness ==
  /\ options.channel = "startResize"
  /\ options.busy
  /\ minGap >= options.threshold
  /\ burstCalls = <<<<"start", burstFirst>>>>
  /\ lastRaw = clock

\* ----------------------------------------------------------------- C19
\* C19: for the debouncers of the resize and of the scroll channel, any two
\* consecutive calls of the callback are at least one threshold apart.
C19_CappedRate ==
  (options.channel \in {"resize", "scroll"} /\ minGap >= 0) =>
    minGap >= options.threshold

\* =================================================== the breakpoint handler
\* The media queries setBreakpoints builds, evaluated for whole-pixel
\* viewport widths. Lengths are compared in hundredths of a pixel.

MaxWidth == 1500       \* widest viewport looked at, in px

\* const breakpoints
breakpoints ==
  <<[name |-> "xs", minPx |-> 0],
    [name |-> "sm", minPx |-> 576],
    [name |-> "md", minPx |-> 768],
    [name |-> "lg", minPx |-> 992],
    [name |-> "xl", minPx |-> 1200],
    [name |-> "xxl", minPx |-> 1400]>>

\* const maxPx = breakpoints[x + 1]?.minPx - 0.02 || 0, in hundredths of a
\* pixel; 0 when there is no next range (NaN || 0) or the difference is 0
maxPx_nextMin(x) ==
  IF x + 1 > Len(breakpoints) THEN 0
  ELSE breakpoints[x + 1].minPx * 100

maxPx(x) ==
  IF x + 1 > Len(breakpoints) THEN 0
  ELSE breakpoints[x + 1].minPx * 100 - 2

\* window.matchMedia(mediaQuery).matches at viewport width w px, for
\* mediaQuery = (min-width: minPx px) [and (max-width: maxPx px)]
matchMedia(x, w) ==
  /\ w * 100 >= breakpoints[x].minPx * 100
  /\ (maxPx(x) # 0 => w * 100 <= maxPx(x))

\* the MediaQueryLists of all ranges at width w
MediaQueryLists(w) == [x \in 1..Len(breakpoints) |-> matchMedia(x, w)]

\* what the breakpoint handler's steps leave alone
outsideBP == <<impl, dom, moduleKind, called, _modules, _deferred, c, remaining,
               fetches, jobs, cbCount, reported, watchCalls, shiftSeen,
               _callbacks, _lastRunTimeStamps, timeStamp, ehVars, dbVars,
               tkVars, scVars, visVars, rdVars>>

\* setBreakpoints has run at some viewport width
BPInit ==
  /\ width \in 0..MaxWidth
  /\ matches = MediaQueryLists(width)
  /\ OthersIdle
  /\ DBIdle
  /\ TKIdle
  /\ SCIdle
  /\ VisIdle
  /\ RDIdle

\* the viewport becomes one pixel wider or narrower
WidthChange ==
  \E w \in {width - 1, width + 1} :
    /\ w \in 0..MaxWidth
    /\ width' = w
    /\ matches' = MediaQueryLists(w)
    /\ UNCHANGED outsideBP

BPNext == WidthChange

SpecBreakpoints == BPInit /\ [][BPNext]_vars

\* ----------------------------------------------------------------- C20
\* C20: at every whole-pixel viewport width exactly one range's media query
\* matches, and it is the range whose minimum is the largest one not above
\* the width.
C20_RangesPartition ==
  /\ Cardinality({x \in DOMAIN matches : matches[x]}) = 1
  /\ \A x \in DOMAIN matches :
       matches[x] <=>
         /\ breakpoints[x].minPx <= width
         /\ (x < Len(breakpoints) => width < breakpoints[x + 1].minPx)

\* the viewport width is the first one of the second range
C20_Witness ==
  /\ width = 576
  /\ matches[2]
  /\ ~matches[1]

\* ----------------------------------------------------------------- C31
\* the primed copy of AllImmediateSettled
AllImmediateSettledNext ==
  \A i \in 1..Len(fetches') : ~fetches'[i].lazy => fetches'[i].st \in {"loaded", "failed"}

\* C31: with the Promise.allSettled dynImports, whenever every immediate
\* import() has settled and no reaction is pending the completion callback
\* has been invoked exactly once, whether or not a lazy module was loaded,
\* and once it has been invoked no later step invokes it again.
C31_CallbackIndependentOfLazy ==
  [][impl = "allSettled" =>
       /\ (called' /\ jobs' = <<>> /\ AllImmediateSettledNext) => cbCount' = 1
       /\ cbCount = 1 => cbCount' = 1]_vars

\* the callback was invoked once, with an immediate module, and a lazy
\* module has been loaded as well
C31_Witness ==
  /\ impl = "allSettled"
  /\ cbCount = 1
  /\ jobs = <<>>
  /\ ImmediateIdx # {}
  /\ \E i \in 1..Len(fetches) : fetches[i].lazy /\ fetches[i].st = "loaded"

\* ========================================= issue order of the immediate loop
\* ----------------------------------------------------------------- C28
\* the identifiers of the elements without dataset.requireLazy, each once,
\* in the order in which a walk of the document meets them first
RECURSIVE DiscoveryOrder(_, _, _)
DiscoveryOrder(el, i, found) ==
  IF el > NumElements THEN found
  ELSE LET toks == Split(dom[el].requires)
       IN IF i > Len(toks) THEN DiscoveryOrder(el + 1, 1, found)
          ELSE IF Truthy(dom[el].requireLazy) \/ toks[i] \in Range(found)
               THEN DiscoveryOrder(el, i + 1, found)
               ELSE DiscoveryOrder(el, i + 1, Append(found, toks[i]))

\* the import() calls of the immediate loop, in issue order
ImmediateIssued(fs) == SelectSeq(fs, LAMBDA f : ~f.lazy)

InitialEmission_matchingOnly(w) ==
  SelectSeq([x \in 1..Len(breakpoints) |->
               [name |-> breakpoints[x].name, matches |-> matchMedia(x, w)]],
            LAMBDA detail : detail.matches)

InitialEmission(w) ==
  [x \in 1..Len(breakpoints) |->
     [name |-> breakpoints[x].name, matches |-> matchMedia(x, w)]]

\* breakPointChanged(e): EventHandler._runListeners(['breakPointChange'], e),
\* e.detail being the MediaQueryList of range x
BreakpointRequest(x) ==
  [trigger |-> "breakPointChange", events |-> Handlers["breakPointChange"],
   detail |-> x]

\* the ranges whose media query changes its result when the width becomes w
Changed(w) == {x \in 1..Len(breakpoints) : matchMedia(x, w) # matches[x]}

\* the 'change' events of one width change, in the order of the ranges
RECURSIVE ChangeRequests(_, _)
ChangeRequests(ranges, x) ==
  IF x > Len(breakpoints) THEN <<>>
  ELSE (IF x \in ranges THEN <<BreakpointRequest(x)>> ELSE <<>>)
         \o ChangeRequests(ranges, x + 1)

\* one animation frame: each request runs the listeners with its event; a
\* listener that is run reads the MediaQueryList's name and present matches
RECURSIVE TrackerLoop(_, _, _, _, _)
TrackerLoop(s, cbs, queue, i, frame) ==
  IF i > Len(queue) THEN s
  ELSE LET s1 == EventLoop(s, cbs, queue[i], 1, frame)
           ran == s1.calls # s.calls
           s2 == IF ran
                 THEN [s1 EXCEPT !.seen[queue[i].detail] =
                                   IF matches[queue[i].detail] THEN "true"
                                   ELSE "false"]
                 ELSE s1
       IN TrackerLoop(s2, cbs, queue, i + 1, frame)

\* what the tracker's steps leave alone
outsideTK == <<impl, dom, moduleKind, called, _modules, _deferred, c, remaining,
               fetches, jobs, cbCount, reported, watchCalls, shiftSeen,
               _states, readyState, document_hidden, frameCalls, frameRuns,
               lastCall, calls, dbVars, scVars, visVars, rdVars>>

\* the event handler is constructed and a listener has subscribed to
\* breakPointChange; hnl.breakpoints.mjs has not run yet
TrackerInit ==
  /\ width \in 0..MaxWidth
  /\ matches = <<>>
  /\ setupDone = FALSE
  /\ initialEvents = <<>>
  /\ lastReported = [x \in 1..Len(breakpoints) |-> "none"]
  /\ _callbacks = addListener(NoListeners, {}, "breakPointChange", [fn |-> "f"])
  /\ _lastRunTimeStamps = <<>>
  /\ timeStamp = 0
  /\ LoaderIdle
  /\ EHIdle
  /\ DBIdle
  /\ SCIdle
  /\ VisIdle
  /\ RDIdle

\* setBreakpoints()
SetBreakpoints ==
  /\ ~setupDone
  /\ setupDone' = TRUE
  /\ matches' = MediaQueryLists(width)
  /\ initialEvents' = InitialEmission(width)
  /\ rafQueue' = rafQueue \o [i \in 1..Len(initialEvents') |->
                                BreakpointRequest(CHOOSE x \in 1..Len(breakpoints) :
                                  breakpoints[x].name = initialEvents'[i].name)]
  /\ UNCHANGED <<width, lastReported, _callbacks, _lastRunTimeStamps, timeStamp,
                 outsideTK>>

\* the viewport becomes one pixel wider or narrower: the MediaQueryLists
\* whose result changes dispatch 'change'
ViewportChange ==
  \E w \in {width - 1, width + 1} :
    /\ setupDone
    /\ w \in 0..MaxWidth
    /\ Len(rafQueue) + Cardinality(Changed(w)) <= Len(breakpoints) + MaxQueue
    /\ width' = w
    /\ matches' = MediaQueryLists(w)
    /\ rafQueue' = rafQueue \o ChangeRequests(Changed(w), 1)
    /\ UNCHANGED <<setupDone, initialEvents, lastReported, _callbacks,
                   _lastRunTimeStamps, timeStamp, outsideTK>>

\* the browser renders a frame
TrackerFrame ==
  /\ rafQueue # <<>>
  /\ timeStamp < MaxFrames
  /\ timeStamp' = timeStamp + 1
  /\ LET s == TrackerLoop([last |-> _lastRunTimeStamps,
                           calls |-> [fn \in Listeners |-> <<>>],
                           runs |-> {},
                           seen |-> lastReported],
                          _callbacks, rafQueue, 1, timeStamp')
     IN /\ _lastRunTimeStamps' = s.last
        /\ lastReported' = s.seen
  /\ rafQueue' = <<>>
  /\ UNCHANGED <<width, matches, setupDone, initialEvents, _callbacks, outsideTK>>

TrackerNext ==
  \/ SetBreakpoints
  \/ ViewportChange
  \/ TrackerFrame

SpecTracker == TrackerInit /\ [][TrackerNext]_vars

\* range x is the one the width w lies in
CurrentRange(x, w) ==
  /\ breakpoints[x].minPx <= w
  /\ (x < Len(breakpoints) => w < breakpoints[x + 1].minPx)

\* ----------------------------------------------------------------- C21
\* C21: once setBreakpoints has run and every requested dispatch has been
\* served, the listener's last report of every range is that range's
\* present state, and exactly one range's last report is matches = true.
C21_OneRangeTrueAtSteadyState ==
  (setupDone /\ rafQueue = <<>>) =>
    /\ \A x \in DOMAIN lastReported :
         lastReported[x] = IF CurrentRange(x, width) THEN "true" ELSE "false"
    /\ Cardinality({x \in DOMAIN lastReported : lastReported[x] = "true"}) = 1

\* setup in xs, then a crossing into sm, each served by its own frame
C21_Witness ==
  /\ setupDone
  /\ rafQueue = <<>>
  /\ timeStamp = 2
  /\ initialEvents[1].matches
  /\ lastReported[1] = "false"
  /\ lastReported[2] = "true"

\* ----------------------------------------------------------------- C22
\* C22: setBreakpoints dispatches one event per configured range, in the
\* order of the ranges, each with the range's name and whether the viewport
\* width lies in the range; exactly one of them has matches = true.
C22_InitialEmission ==
  [][(~setupDone /\ setupDone') =>
       /\ Len(initialEvents') = Len(breakpoints)
       /\ \A x \in 1..Len(breakpoints) :
            /\ x \in DOMAIN initialEvents'
            /\ initialEvents'[x] = [name |-> breakpoints[x].name,
                                    matches |-> CurrentRange(x, width)]
       /\ Cardinality({x \in DOMAIN initialEvents' :
                         initialEvents'[x].matches}) = 1]_vars

\* the setup has run at a width of the md range and its events wait for a frame
C22_Witness ==
  /\ setupDone
  /\ Len(rafQueue) = Len(breakpoints)
  /\ Len(initialEvents) = Len(breakpoints)
  /\ initialEvents[3].matches
  /\ width = 800

\* ================================================== domScanner on its own
\* domScanner('requires', cb) over a document whose attribute values also
\* hold blanks, empty tokens and repeated identifiers.

NumScanned == 3
MaxScans == 2

C == <<"c">>

\* values of the data-requires attribute:
\* "a,b", "b", "c", "a, b", "a,a", " b", " ,"
ScanValues == {<<"a", ",", "b">>, B, C, <<"a", ",", " ", "b">>,
               <<"a", ",", "a">>, <<" ", "b">>, <<" ", ",">>}

\* an element's dataset: requires (data-requires), requireLazy
\* (data-require-lazy) and requiresLazy (data-requires-lazy)
ScanDatasets ==
  {[requires |-> v, requireLazy |-> l[1], requiresLazy |-> l[2]] :
     v \in ScanValues,
     l \in {<<"undefined", "undefined">>, <<"true", "undefined">>,
            <<"undefined", "true">>}}

outsideScan == <<impl, moduleKind, called, c, remaining, _callbacks,
                 _lastRunTimeStamps, timeStamp, fetches, jobs, cbCount,
                 reported, watchCalls, shiftSeen, ehVars, dbVars, bpVars,
                 tkVars, visVars, rdVars>>

ScanInit ==
  /\ dom \in UNION {[1..n -> ScanDatasets] : n \in 1..NumScanned}
  /\ _modules = <<>>
  /\ _deferred = <<>>
  /\ LoaderRestIdle
  /\ _callbacks = NoListeners
  /\ _lastRunTimeStamps = <<>>
  /\ timeStamp = 0
  /\ EHIdle
  /\ DBIdle
  /\ BPIdle
  /\ TKIdle
  /\ SCIdle
  /\ VisIdle
  /\ RDIdle

\* domScanner('requires', cb): cb receives _modules, _deferred and totals
Scan ==
  /\ scans < MaxScans
  /\ LET scan == domScanner(dom, _modules, _deferred)
     IN /\ _modules' = scan.modules
        /\ _deferred' = scan.deferred
        /\ totals' = scan.totals
  /\ scans' = scans + 1
  /\ UNCHANGED <<dom, outsideScan>>

ScanNext == Scan

SpecScan == ScanInit /\ [][ScanNext]_vars

\* the keys of a map
Keys(map) == {map[i].key : i \in 1..Len(map)}

\* the identifiers an element names: its tokens, trimmed, the empty ones left out
Named(el) == {Trim(t) : t \in Range(Split(dom[el].requires))} \ {<<>>}

\* identifier id has element el in its list in the map
Lists(map, id, el) ==
  \E i \in 1..Len(map) : map[i].key = id /\ el \in Range(map[i].elements)

\* as Lists, for a key that is the identifier up to surrounding blanks
ListsUntrimmed(map, id, el) ==
  \E i \in 1..Len(map) : Trim(map[i].key) = id /\ el \in Range(map[i].elements)

\* the document of the scenario: "a,b" / "b" / lazy "c"
Scenario ==
  /\ Len(dom) = 3
  /\ dom[1].requires = <<"a", ",", "b">> /\ dom[1].requireLazy = "undefined"
  /\ dom[2].requires = B /\ dom[2].requireLazy = "undefined"
  /\ dom[3].requires = C /\ dom[3].requireLazy = "true"

C24_NoFlagAllImmediate ==
  (scans = 1 /\ \A el \in DOMAIN dom : /\ dom[el].requireLazy = "undefined"
                                       /\ dom[el].requiresLazy = "undefined") =>
    /\ _deferred = <<>>
    /\ \A el \in DOMAIN dom : \A id \in Named(el) : Lists(_modules, id, el)

\* ----------------------------------------------------------------- C25
\* C25: after a scan, an element with data-requires-lazy="true" has every
\* identifier it names in the lazy map and none in the immediate map on its
\* account; an element without it has every identifier in the immediate map.
C25_LazyFlagRoutesAll ==
  scans = 1 =>
    \A el \in DOMAIN dom : \A id \in Named(el) :
      IF dom[el].requiresLazy = "true"
      THEN /\ ListsUntrimmed(_deferred, id, el)
           /\ ~ListsUntrimmed(_modules, id, el)
      ELSE ListsUntrimmed(_modules, id, el)

\* ----------------------------------------------------------------- C26
\* C26: after a scan, no element list of either map holds an element twice.
C26_NoElementTwice ==
  scans = 1 =>
    \A map \in {_modules, _deferred} : \A i \in 1..Len(map) :
      \A j, k \in 1..Len(map[i].elements) :
        map[i].elements[j] = map[i].elements[k] => j = k

\* ----------------------------------------------------------------- C27
\* C27: after a scan, every key of either map is a trimmed, non-empty
\* token, so that no two keys are one identifier up to surrounding blanks.
C27_KeysAreTrimmed ==
  scans = 1 =>
    \A k \in Keys(_modules) \cup Keys(_deferred) : Trim(k) = k /\ k # <<>>

\* ----------------------------------------------------------------- C36
\* C36: after a second scan of the unchanged document the two maps and
\* totals are what a scan into empty maps yields.
C36_ScanIdempotent ==
  scans = 2 =>
    /\ _modules = domScanner(dom, <<>>, <<>>).modules
    /\ _deferred = domScanner(dom, <<>>, <<>>).deferred
    /\ totals = domScanner(dom, <<>>, <<>>).totals

\* ================================================================ isVisible
\* isVisible(element, callback, vp): the callback's visible and fullyVisible
\* for a bounding box, the window's inner size and a viewport override.

WindowSize == 2
MaxSide == 4

\* a vp.top above the window's top edge
RegionAbove == -3

\* window.innerWidth, window.innerHeight
innerWidth == WindowSize
innerHeight == WindowSize

\* element.getBoundingClientRect()
Rects ==
  {[top |-> t, left |-> l, bottom |-> t + h, right |-> l + w,
    height |-> h, width |-> w] :
     t \in (RegionAbove + 1)..(WindowSize + 1), l \in -1..(WindowSize + 1),
     h \in 0..MaxSide, w \in 0..MaxSide}

\* the vp argument: every edge a number or left out; the region may begin
\* above the window
Overrides == [top : {Unset, RegionAbove} \cup 0..WindowSize, bottom : {Unset} \cup 0..WindowSize,
              left : {Unset} \cup 0..WindowSize, right : {Unset} \cup 0..WindowSize]

\* const viewport = {...}
Viewport(vp) ==
  [top |-> IF vp.top # Unset THEN vp.top ELSE 0,
   bottom |-> IF vp.bottom # Unset THEN vp.bottom ELSE innerHeight,
   left |-> IF vp.left # Unset THEN vp.left ELSE 0,
   right |-> IF vp.right # Unset THEN vp.right ELSE innerWidth]

\* const fullyVisible = (...)
fullyVisible(rect, viewport) ==
  /\ (rect.height > 0 \/ rect.width > 0)
  /\ rect.bottom < viewport.bottom
  /\ rect.right < viewport.right
  /\ rect.top > viewport.top
  /\ rect.left > viewport.left

\* const visible = (...)
visible(rect, viewport) ==
  /\ (rect.height > 0 \/ rect.width > 0)
  /\ rect.bottom >= 0
  /\ rect.top <= viewport.bottom
  /\ \/ (rect.right > viewport.left /\ rect.right <= viewport.right)
     \/ (rect.left < viewport.right /\ rect.left >= viewport.left)

\* what callback.call(this, visible, fullyVisible, rect) receives
isVisible(rect, vp) ==
  [called |-> TRUE, rect |-> rect, vp |-> vp, viewport |-> Viewport(vp),
   visible |-> visible(rect, Viewport(vp)),
   fullyVisible |-> fullyVisible(rect, Viewport(vp))]

outsideVis == <<impl, dom, moduleKind, called, _modules, _deferred, c, remaining,
                _callbacks, _lastRunTimeStamps, timeStamp, fetches, jobs,
                cbCount, reported, watchCalls, shiftSeen, ehVars, dbVars,
                bpVars, tkVars, scVars, rdVars>>

\* an element's box and a vp argument, isVisible not called yet
VisInit ==
  /\ probe \in {[NoProbe EXCEPT !.rect = rect, !.vp = vp] :
                  rect \in Rects, vp \in Overrides}
  /\ OthersIdle
  /\ DBIdle
  /\ BPIdle
  /\ TKIdle
  /\ SCIdle
  /\ RDIdle

\* isVisible(element, callback): the window is the viewport
IsVisibleInWindow ==
  /\ ~probe.called
  /\ \A edge \in DOMAIN probe.vp : probe.vp[edge] = Unset
  /\ probe' = isVisible(probe.rect, probe.vp)
  /\ UNCHANGED outsideVis

\* isVisible(element, callback, vp) with at least one edge given
IsVisibleInRegion ==
  /\ ~probe.called
  /\ \E edge \in DOMAIN probe.vp : probe.vp[edge] # Unset
  /\ probe' = isVisible(probe.rect, probe.vp)
  /\ UNCHANGED outsideVis

VisNext ==
  \/ IsVisibleInWindow
  \/ IsVisibleInRegion

SpecVisible == VisInit /\ [][VisNext]_vars

\* the box has an area
HasArea(rect) == rect.width > 0 /\ rect.height > 0

\* box and region share an area
Overlaps(rect, viewport) ==
  /\ rect.left < viewport.right /\ viewport.left < rect.right
  /\ rect.top < viewport.bottom /\ viewport.top < rect.bottom

\* box and region share at least a point of an edge
Touches(rect, viewport) ==
  /\ rect.left <= viewport.right /\ viewport.left <= rect.right
  /\ rect.top <= viewport.bottom /\ viewport.top <= rect.bottom

\* the whole box lies in the region, edges included
Within(rect, viewport) ==
  /\ viewport.left <= rect.left /\ rect.right <= viewport.right
  /\ viewport.top <= rect.top /\ rect.bottom <= viewport.bottom

\* ----------------------------------------------------------------- C29
\* C29: for a box with an area, visible is true when box and region share
\* an area, and false when they do not even touch.
C29_VisibleIffOverlap ==
  (probe.called /\ HasArea(probe.rect)) =>
    /\ Overlaps(probe.rect, probe.viewport) => probe.visible
    /\ probe.visible => Touches(probe.rect, probe.viewport)

\* ----------------------------------------------------------------- C30
\* C30: for a box with an area, fullyVisible is true exactly when the whole
\* box lies in the region, a box reaching the region's edges included.
C30_FullyVisibleIffWithin ==
  (probe.called /\ HasArea(probe.rect)) =>
    (probe.fullyVisible <=> Within(probe.rect, probe.viewport))


\* ----------------------------------------------------------------- C38
\* C38: no call reports a box as fully visible and not visible.
C38_FullyVisibleImpliesVisible ==
  probe.called => (probe.fullyVisible => probe.visible)


\* ================================ a breakPointChange listener added late
\* the event handler is constructed with no breakPointChange listener; a
\* consumer calls addListener('breakPointChange', f) after the frame that
\* served the dispatches of setBreakpoints.
LateInit ==
  /\ width \in 0..MaxWidth
  /\ matches = <<>>
  /\ setupDone = FALSE
  /\ initialEvents = <<>>
  /\ lastReported = [x \in 1..Len(breakpoints) |-> "none"]
  /\ _callbacks = NoListeners
  /\ _lastRunTimeStamps = <<>>
  /\ timeStamp = 0
  /\ LoaderIdle
  /\ EHIdle
  /\ DBIdle
  /\ SCIdle
  /\ VisIdle
  /\ RDIdle

\* eventHandler.addListener('breakPointChange', f), the initial dispatches served
LateAddListener ==
  /\ setupDone
  /\ timeStamp >= 1
  /\ rafQueue = <<>>
  /\ _callbacks["breakPointChange"] = <<>>
  /\ _callbacks' = addListener(_callbacks, _states, "breakPointChange", [fn |-> "f"])
  /\ UNCHANGED <<width, matches, setupDone, initialEvents, lastReported, rafQueue,
                 _lastRunTimeStamps, timeStamp, outsideTK>>

LateNext ==
  \/ SetBreakpoints
  \/ ViewportChange
  \/ TrackerFrame
  \/ LateAddListener

SpecLate == LateInit /\ [][LateNext]_vars

\* ----------------------------------------------------------------- C32
\* C32: a listener added to breakPointChange after the initial dispatches
\* were served has, whenever no dispatch is waiting, been told of the range
\* the viewport width lies in that it matches.
C32_LateConsumerKnowsCurrentRange ==
  (_callbacks["breakPointChange"] # <<>> /\ rafQueue = <<>>) =>
    \E x \in DOMAIN lastReported :
      lastReported[x] = "true" /\ CurrentRange(x, width)


\* ====================================== docReady callbacks over a lifetime
\* each callback of ReadyCallbacks is registered on docReady once, at any
\* moment of the page's life; every invocation of it is counted.

\* the request of the DOMContentLoaded handler (or of the constructor's
\* ready branch) still waits for its frame
ReadyPending == \E i \in 1..Len(rafQueue) : rafQueue[i].trigger = "DOMContentLoaded"

\* eventHandler.addListener('docReady', fn), fn not registered before
Register ==
  \E fn \in ReadyCallbacks :
    /\ ~InFrame
    /\ registeredAt[fn] = "none"
    /\ registeredAt' = [registeredAt EXCEPT ![fn] =
                          IF "docReady" \notin _states THEN "loading"
                          ELSE IF ReadyPending THEN "pending" ELSE "dispatched"]
    /\ _callbacks' = addListener(_callbacks, _states, "docReady", [fn |-> fn])
    /\ invocations' = [invocations EXCEPT ![fn] =
                         IF "docReady" \in _states THEN @ + 1 ELSE @]
    /\ UNCHANGED <<impl, dom, moduleKind, called, _modules, _deferred, c,
                   remaining, _lastRunTimeStamps, timeStamp, fetches, jobs,
                   cbCount, reported, watchCalls, shiftSeen, ehVars, dbVars,
                   bpVars, tkVars, scVars, visVars>>

\* the browser renders a frame
ReadyFrame ==
  /\ ~InFrame
  /\ rafQueue # <<>>
  /\ timeStamp < MaxFrames
  /\ timeStamp' = timeStamp + 1
  /\ LET s == FrameLoop([last |-> _lastRunTimeStamps,
                         calls |-> [fn \in Listeners |-> <<>>],
                         runs |-> {}],
                        _callbacks, rafQueue, 1, timeStamp')
     IN /\ _lastRunTimeStamps' = s.last
        /\ frameCalls' = s.calls
        /\ frameRuns' = s.runs
        /\ invocations' = [fn \in ReadyCallbacks |->
                             invocations[fn] + Len(s.calls[fn])]
  /\ rafQueue' = <<>>
  /\ UNCHANGED <<impl, dom, moduleKind, called, _modules, _deferred, c,
                 remaining, _callbacks, fetches, jobs, cbCount, reported,
                 watchCalls, shiftSeen, _states, readyState, document_hidden,
                 lastCall, calls, registeredAt, dbVars, bpVars, tkVars, scVars,
                 visVars>>

ReadyNext ==
  \/ DOMContentLoaded
  \/ Load
  \/ ImgsLoaded
  \/ Register
  \/ ReadyFrame
  \/ FrameDone

SpecReady == EHInit /\ [][ReadyNext]_vars

Throwing == {"f", "g"}

\* the for-in over the listeners of channel event of request i
RECURSIVE ThrowingListenerLoop_isolated(_, _, _, _, _, _)
ThrowingListenerLoop_isolated(s, cbs, event, ids, i, now) ==
  IF ids = {} \/ s.thrown THEN s
  ELSE LET id == MinId(ids)
           cb == cbs[event][id]
           s1 == IF LastRun(s.last, id) # now \/ event \in _allowMultiple
                 THEN [s EXCEPT !.last = (id :> now) @@ @,
                                !.calls[cb.fn] = Append(@, <<i, event>>)]
                 ELSE s
       IN ThrowingListenerLoop_isolated(s1, cbs, event, ids \ {id}, i, now)

RECURSIVE ThrowingListenerLoop(_, _, _, _, _, _)
ThrowingListenerLoop(s, cbs, event, ids, i, now) ==
  IF ids = {} \/ s.thrown THEN s
  ELSE LET id == MinId(ids)
           cb == cbs[event][id]
           s1 == IF LastRun(s.last, id) # now \/ event \in _allowMultiple
                 THEN [s EXCEPT !.last = (id :> now) @@ @,
                                !.calls[cb.fn] = Append(@, <<i, event>>),
                                !.thrown = cb.fn \in Throwing]
                 ELSE s
       IN ThrowingListenerLoop(s1, cbs, event, ids \ {id}, i, now)

\* events.forEach of request i, from its j-th channel on
RECURSIVE ThrowingEventLoop(_, _, _, _, _, _)
ThrowingEventLoop(s, cbs, queue, i, j, now) ==
  IF j > Len(queue[i].events) \/ s.thrown THEN s
  ELSE LET event == queue[i].events[j]
           s1 == [s EXCEPT !.runs = @ \cup {<<queue[i].trigger, event>>}]
       IN ThrowingEventLoop(
            ThrowingListenerLoop(s1, cbs, event, DOMAIN cbs[event], i, now),
            cbs, queue, i, j + 1, now)

\* one animation frame: every request's callback starts afresh
RECURSIVE ThrowingFrameLoop(_, _, _, _, _)
ThrowingFrameLoop(s, cbs, queue, i, now) ==
  IF i > Len(queue) THEN s
  ELSE ThrowingFrameLoop(
         ThrowingEventLoop([s EXCEPT !.thrown = FALSE], cbs, queue, i, 1, now),
         cbs, queue, i + 1, now)

\* the browser renders a frame
ThrowingFrame ==
  /\ ~InFrame
  /\ rafQueue # <<>>
  /\ timeStamp < MaxFrames
  /\ timeStamp' = timeStamp + 1
  /\ LET s == ThrowingFrameLoop([last |-> _lastRunTimeStamps,
                                 calls |-> [fn \in Listeners |-> <<>>],
                                 runs |-> {}, thrown |-> FALSE],
                                _callbacks, rafQueue, 1, timeStamp')
     IN /\ _lastRunTimeStamps' = s.last
        /\ frameCalls' = s.calls
        /\ frameRuns' = s.runs
  /\ rafQueue' = <<>>
  /\ UNCHANGED <<_callbacks, _states, readyState, document_hidden, lastCall,
                 calls, outsideEH>>

ThrowNext ==
  \/ DOMContentLoaded
  \/ Load
  \/ ImgsLoaded
  \/ RepeatedHandler
  \/ VisibilityChange
  \/ ThrowingFrame
  \/ FrameDone

SpecThrow == DispatchInit /\ [][ThrowNext]_vars

\* the place of a channel in a request's batch
PlaceIn(events, event) == CHOOSE j \in 1..Len(events) : events[j] = event

\* ----------------------------------------------------------------- C35
\* C35: when a callback that throws was run for a channel of a request, no
\* callback that comes after it in that channel's for-in order and no
\* callback of a later channel of that request was run for that request.
C35_ThrowStopsTheBatch ==
  [][timeStamp' # timeStamp =>
       \A t \in Throwing : \A thrown \in Range(frameCalls'[t]) :
         \A fn \in Listeners : \A run \in Range(frameCalls'[fn]) :
           run[1] = thrown[1] =>
             LET events == rafQueue[run[1]].events
             IN \/ PlaceIn(events, run[2]) < PlaceIn(events, thrown[2])
                \/ /\ run[2] = thrown[2]
                   /\ ~IdLess(ListenerId([fn |-> t]), ListenerId([fn |-> fn]))]_vars

\* the DOMContentLoaded request: f threw for docReady; h, stored under
\* docReady after f and under docShift, was not run
C35_Witness ==
  /\ InFrame
  /\ Stored(_callbacks, "docReady", "f")
  /\ Stored(_callbacks, "docReady", "h")
  /\ Stored(_callbacks, "docShift", "h")
  /\ frameCalls["f"] = <<<<1, "docReady">>>>
  /\ frameCalls["h"] = <<>>

====
